---------------------------- MODULE Spec2Model ----------------------------
(***************************************************************************)
(* A model of the stock-quote components of get-alphavantage-quotation:    *)
(* the Heikin-Ashi transform (calculateHeikinAshi) as a pure function, and *)
(* the fetch sequences of the StockQuote component variants as a state     *)
(* machine over the React state (symbol, stockData, error, loading, ...).  *)
(***************************************************************************)
EXTENDS Integers, Sequences, FiniteSets, TLC

(***************************************************************************)
(* Bounds of the model.                                                    *)
(***************************************************************************)
\* Longest time series handed to calculateHeikinAshi; also the number of days.
MaxLen == 3

(***************************************************************************)
(* Numbers.  A JavaScript number is either NaN or a value; values are kept *)
(* as integers in units of 1/Scale, so that the halves and quarters the    *)
(* recurrence produces over MaxLen bars are exact (as they are in IEEE     *)
(* doubles for the small integer prices used here).                        *)
(***************************************************************************)
Scale == 2 ^ (MaxLen + 1)

NaN == [nan |-> TRUE, v |-> 0]

Num(n) == [nan |-> FALSE, v |-> n]

IsNum(x) == ~x.nan

\* a + b
Add(a, b) == IF a.nan \/ b.nan THEN NaN ELSE Num(a.v + b.v)

\* a / k, for k = 2 or 4
Div(a, k) == IF a.nan THEN NaN ELSE Num(a.v \div k)

\* Math.max(a, b, c): NaN when any argument is NaN
MathMax(a, b, c) ==
  IF a.nan \/ b.nan \/ c.nan THEN NaN
  ELSE Num(CHOOSE m \in {a.v, b.v, c.v} : \A z \in {a.v, b.v, c.v} : z <= m)

\* Math.min(a, b, c): NaN when any argument is NaN
MathMin(a, b, c) ==
  IF a.nan \/ b.nan \/ c.nan THEN NaN
  ELSE Num(CHOOSE m \in {a.v, b.v, c.v} : \A z \in {a.v, b.v, c.v} : m <= z)

(***************************************************************************)
(* Strings of the feed are sequences of characters.  parseFloat reads the  *)
(* longest prefix of digits and ignores what follows; with no such prefix  *)
(* it gives NaN.  (Sign, fraction and exponent are not in the alphabet of  *)
(* the sample strings.)                                                    *)
(***************************************************************************)
DigitChars == {"0", "1", "2", "3", "4", "5", "6", "7", "8", "9"}

DigitValue(c) ==
  CASE c = "0" -> 0 [] c = "1" -> 1 [] c = "2" -> 2 [] c = "3" -> 3
    [] c = "4" -> 4 [] c = "5" -> 5 [] c = "6" -> 6 [] c = "7" -> 7
    [] c = "8" -> 8 [] c = "9" -> 9

RECURSIVE DigitPrefixLen(_)
DigitPrefixLen(s) ==
  IF s = <<>> \/ Head(s) \notin DigitChars THEN 0
  ELSE 1 + DigitPrefixLen(Tail(s))

RECURSIVE DigitsValue(_, _)
\* the decimal value of the first n characters of s, all digits
DigitsValue(s, n) ==
  IF n = 0 THEN 0 ELSE 10 * DigitsValue(s, n - 1) + DigitValue(s[n])

parseFloat(s) ==
  IF DigitPrefixLen(s) = 0 THEN NaN
  ELSE Num(DigitsValue(s, DigitPrefixLen(s)) * Scale)

\* a string that is a number and nothing else
IsNumeric(s) == s # <<>> /\ DigitPrefixLen(s) = Len(s)

(***************************************************************************)
(* calculateHeikinAshi.  timeSeries is the sequence Object.entries gives:  *)
(* [date, values] in the mapping's iteration order, dates distinct.  A     *)
(* date is the number of its day (ISO date strings compare as their days   *)
(* do).                                                                    *)
(***************************************************************************)
NoCandle == [time |-> 0, open |-> NaN, high |-> NaN, low |-> NaN, close |-> NaN]

HaOpenAlwaysRaw(index, open, prevHA) == open

\* lines 236-240: haOpen
haOpen(index, open, prevHA) ==
  IF index = 0 THEN open
  ELSE Div(Add(prevHA.open, prevHA.close), 2)

HaCloseAlwaysAveraged(index, open, high, low, close) ==
  Div(Add(Add(Add(open, high), low), close), 4)

\* lines 236-241: haClose
haClose(index, open, high, low, close) ==
  IF index = 0 THEN close
  ELSE Div(Add(Add(Add(open, high), low), close), 4)

HaHighIgnoringOpen(high, o, c) == MathMax(high, c, c)

\* line 244
haHigh(high, o, c) == MathMax(high, o, c)

\* line 245
haLow(low, o, c) == MathMin(low, o, c)

\* lines 229-253: the candle of one entry, index counted from 0
haCandle(entry, index, prevHA) ==
  LET open == parseFloat(entry.values.open)
      high == parseFloat(entry.values.high)
      low == parseFloat(entry.values.low)
      close == parseFloat(entry.values.close)
      o == haOpen(index, open, prevHA)
      c == haClose(index, open, high, low, close)
  IN [time |-> entry.date, open |-> o, high |-> haHigh(high, o, c),
      low |-> haLow(low, o, c), close |-> c]

RECURSIVE forEachEntry(_, _)
\* lines 228-257: heikinAshiData after the first n entries were processed
forEachEntry(entries, n) ==
  IF n = 0 THEN <<>>
  ELSE LET done == forEachEntry(entries, n - 1)
           prevHA == IF n = 1 THEN NoCandle ELSE done[n - 1]
       IN Append(done, haCandle(entries[n], n - 1, prevHA))

KeepOrder(s) == s

\* Array.prototype.reverse
reverse(s) == [i \in 1..Len(s) |-> s[Len(s) + 1 - i]]

CalculateDroppingSeed(timeSeries) ==
  [threw |-> FALSE,
   bars |-> reverse(SubSeq(forEachEntry(timeSeries, Len(timeSeries)), 2, Len(timeSeries)))]

CalculateThrowingOnEmpty(timeSeries) ==
  [threw |-> timeSeries = <<>>,
   bars |-> reverse(forEachEntry(timeSeries, Len(timeSeries)))]

\* lines 224-260.  The function holds no throw and its calls raise nothing:
\* it always returns.
calculateHeikinAshi(timeSeries) ==
  [threw |-> FALSE,
   bars |-> reverse(forEachEntry(timeSeries, Len(timeSeries)))]

(***************************************************************************)
(* Sample feed entries: the string fields as the feed sends them.          *)
(***************************************************************************)
RawBar(o, h, l, c) == [open |-> o, high |-> h, low |-> l, close |-> c]

SampleBars ==
  { RawBar(<<"1", "0">>, <<"1", "2">>, <<"9">>, <<"1", "1">>),
    RawBar(<<"8">>, <<"9">>, <<"7">>, <<"8">>),
    RawBar(<<"5">>, <<"6">>, <<"4">>, <<"5">>),
    RawBar(<<"2">>, <<"3">>, <<"1">>, <<"2">>),
    RawBar(<<"x">>, <<"9">>, <<"7">>, <<"8">>),
    RawBar(<<"8">>, <<"9", "x">>, <<"7">>, <<"8">>) }

Days == 1..MaxLen

\* every mapping of at most MaxLen distinct days to sample bars, in every
\* iteration order
TimeSeriesInputs ==
  UNION { { s \in [1..n -> [date : Days, values : SampleBars]] :
              \A i, j \in 1..n : i # j => s[i].date # s[j].date } : n \in 0..MaxLen }

AllNumeric(timeSeries) ==
  \A i \in 1..Len(timeSeries) :
    /\ IsNumeric(timeSeries[i].values.open)
    /\ IsNumeric(timeSeries[i].values.high)
    /\ IsNumeric(timeSeries[i].values.low)
    /\ IsNumeric(timeSeries[i].values.close)

NewestFirst(timeSeries) ==
  \A i \in 1..Len(timeSeries) - 1 : timeSeries[i].date > timeSeries[i + 1].date

(***************************************************************************)
(* The StockQuote component variants.                                      *)
(*   "basic"   src/src/StockQuote.tsx: quote only, stockData kept          *)
(*   "quote"   src/unnamed/part_001: quote only, state reset before fetch  *)
(*   "area"    src/src/components/StockQuote.tsx: quote and area chart     *)
(*   "ha"      src/unnamed/part_000: quote and Heikin-Ashi chart           *)
(*   "options" src/unnamed/part_002: quote and options chain               *)
(* part_000 calls handleError and handleKeyPress and defines neither; they *)
(* are taken to be those of the area-chart component it was copied from    *)
(* (src/src/components/StockQuote.tsx 184-192 and 210-214).                *)
(***************************************************************************)
Variants == {"basic", "quote", "area", "ha", "options"}

\* Fetch sequences one component starts in a behaviour.
MaxSeq == 2

\* null, and a value that is not null
Null == <<>>

Some(x) == <<x>>

(***************************************************************************)
(* The symbol input.  A text is a sequence of characters.                  *)
(***************************************************************************)
TypedTexts == {<<>>, <<" ">>, <<"a">>, <<"B">>}

UpperChar(c) == CASE c = "a" -> "A" [] c = "b" -> "B" [] OTHER -> c

KeepCase(s) == s

\* String.prototype.toUpperCase
toUpperCase(s) == [i \in 1..Len(s) |-> UpperChar(s[i])]

RECURSIVE trimStart(_)
trimStart(s) == IF s # <<>> /\ Head(s) = " " THEN trimStart(Tail(s)) ELSE s

\* String.prototype.trim
trim(s) == reverse(trimStart(reverse(trimStart(s))))

ValidSymbolWithoutTrim(v, sym) == sym # <<>>

\* the guard at the head of fetchStockData / fetchData: TRUE when the fetch goes on
validSymbol(v, sym) ==
  IF v = "basic" THEN sym # <<>> ELSE trim(sym) # <<>>

(***************************************************************************)
(* Responses of the API.  kind: the fetch rejected (or its body was not    *)
(* JSON), or answered with a status that is not ok, or answered with a     *)
(* JSON object.  err: the 'Error Message' field (absent, the empty string, *)
(* a text).  quote: 'Global Quote' (absent, an object without keys, an     *)
(* object with data).  series: 'Time Series (Daily)' (Null when there is   *)
(* no such key).  chain: the calls and puts of an options response.        *)
(***************************************************************************)
Response(k, e, q, s, c) == [kind |-> k, err |-> e, quote |-> q, series |-> s, chain |-> c]

NoResponse == Response("none", "absent", "absent", Null, Null)

Failures ==
  { Response("rejected", "absent", "absent", Null, Null),
    Response("http", "absent", "absent", Null, Null) }

ErrFields == {"absent", "empty", "text"}

QuoteFields == {"absent", "empty", "data"}

QuoteResponses ==
  Failures \cup { Response("json", e, q, Null, Null) : e \in ErrFields, q \in QuoteFields }

SampleSeries ==
  { <<>>,
    << [date |-> 2, values |-> RawBar(<<"8">>, <<"9">>, <<"7">>, <<"8">>)],
       [date |-> 1, values |-> RawBar(<<"5">>, <<"6">>, <<"4">>, <<"5">>)] >> }

HistoricalResponses ==
  Failures \cup { Response("json", e, "absent", s, Null) :
                    e \in {"absent", "text"}, s \in {Null} \cup {Some(t) : t \in SampleSeries} }

SampleChains ==
  { [calls |-> Null, puts |-> Null],
    [calls |-> Some(<<"C100">>), puts |-> Some(<<"P90">>)] }

OptionsResponses ==
  Failures \cup { Response("json", "absent", "absent", Null, Some(c)) : c \in SampleChains }

(***************************************************************************)
(* Error messages: a message is the sequence of its parts.                 *)
(***************************************************************************)
\* the message of the TypeError a rejected fetch carries
RejectionMessage == <<"Failed to fetch">>

\* `HTTP error! status: ${response.status}`
HttpMessage == <<"HTTP error! status: ", "500">>

\* data['Error Message']
ApiMessage(e) == IF e = "text" THEN <<"Invalid API call">> ELSE <<>>

(***************************************************************************)
(* What the quote part of a fetch sequence throws (or, in the basic        *)
(* variant, sets as the error): Null when the quote is accepted.           *)
(***************************************************************************)
\* src/src/StockQuote.tsx 24-45
quoteFailureBasic(r) ==
  IF r.kind \in {"rejected", "http"} THEN Some(<<"Failed to fetch stock data">>)
  ELSE IF r.quote = "data" THEN Null
  ELSE Some(<<"No data found for this symbol">>)

QuoteFailureQuoteTestingPresence(r) ==
  IF r.kind = "rejected" THEN Some(RejectionMessage)
  ELSE IF r.kind = "http" THEN Some(HttpMessage)
  ELSE IF r.err # "absent" THEN Some(ApiMessage(r.err))
  ELSE IF r.quote # "data" THEN Some(<<"No data found for this symbol">>)
  ELSE Null

\* src/unnamed/part_001 45-63: if (data["Error Message"])
quoteFailureQuote(r) ==
  IF r.kind = "rejected" THEN Some(RejectionMessage)
  ELSE IF r.kind = "http" THEN Some(HttpMessage)
  ELSE IF r.err = "text" THEN Some(ApiMessage(r.err))
  ELSE IF r.quote # "data" THEN Some(<<"No data found for this symbol">>)
  ELSE Null

QuoteFailureChartKeepingEmptyQuote(r) ==
  IF r.kind = "rejected" THEN Some(RejectionMessage)
  ELSE IF r.kind = "http" THEN Some(HttpMessage)
  ELSE IF r.err # "absent" THEN Some(ApiMessage(r.err))
  ELSE IF r.quote = "absent" THEN Some(<<"No data found for this symbol">>)
  ELSE Null

\* src/unnamed/part_000 116-137 and src/src/components/StockQuote.tsx 90-111:
\* if ('Error Message' in data)
quoteFailureChart(r) ==
  IF r.kind = "rejected" THEN Some(RejectionMessage)
  ELSE IF r.kind = "http" THEN Some(HttpMessage)
  ELSE IF r.err # "absent" THEN Some(ApiMessage(r.err))
  ELSE IF r.quote # "data" THEN Some(<<"No data found for this symbol">>)
  ELSE Null

\* src/unnamed/part_002 63-80: if (quoteData["Error Message"])
quoteFailureOptions(r) ==
  IF r.kind = "rejected" THEN Some(RejectionMessage)
  ELSE IF r.kind = "http" THEN Some(HttpMessage)
  ELSE IF r.err = "text" THEN Some(ApiMessage(r.err))
  ELSE IF r.quote # "data" THEN Some(<<"No quote data found for this symbol">>)
  ELSE Null

quoteFailure(v, r) ==
  CASE v = "basic" -> quoteFailureBasic(r)
    [] v = "quote" -> quoteFailureQuote(r)
    [] v = "options" -> quoteFailureOptions(r)
    [] OTHER -> quoteFailureChart(r)

\* the request that follows an accepted quote, "none" when the sequence ends
requestAfterQuote(v) ==
  CASE v = "area" -> "TIME_SERIES_DAILY_ADJUSTED"
    [] v = "ha" -> "TIME_SERIES_DAILY_ADJUSTED"
    [] v = "options" -> "OPTIONS_CHAIN"
    [] OTHER -> "none"

(***************************************************************************)
(* fetchHistoricalData.  Its result is what it throws (Some(message)), the *)
(* request it goes on with ("none" when it is over), and the data it sets. *)
(***************************************************************************)
HistoricalPrefix == "Failed to fetch historical data: "

Thrown(msg) == [throws |-> Some(<<HistoricalPrefix>> \o msg), next |-> "none", data |-> Null]

\* rank of the point of time t among the times of ps
TimeRank(ps, t) == Cardinality({j \in 1..Len(ps) : ps[j].time <= t})

\* Array.prototype.sort by time, of points with distinct times
sortByTime(ps) ==
  [k \in 1..Len(ps) |-> CHOOSE p \in {ps[j] : j \in 1..Len(ps)} : TimeRank(ps, p.time) = k]

\* src/src/components/StockQuote.tsx 165-170
chartPoints(timeSeries) ==
  sortByTime([i \in 1..Len(timeSeries) |->
                [time |-> timeSeries[i].date, value |-> parseFloat(timeSeries[i].values.close)]])

\* src/src/components/StockQuote.tsx 139-180
fetchHistoricalDataArea(r) ==
  IF r.kind = "rejected" THEN Thrown(RejectionMessage)
  ELSE IF r.kind = "http" THEN Thrown(HttpMessage)
  ELSE IF r.err # "absent" THEN Thrown(ApiMessage(r.err))
  ELSE IF r.series = Null THEN Thrown(<<"No time series data found">>)
  ELSE [throws |-> Null, next |-> "none", data |-> Some(chartPoints(r.series[1]))]

FetchHistoricalDataHAWithoutFallback(r, first) ==
  IF r.kind = "rejected" THEN Thrown(RejectionMessage)
  ELSE IF r.kind = "http" THEN Thrown(HttpMessage)
  ELSE IF r.err # "absent" THEN Thrown(ApiMessage(r.err))
  ELSE IF r.series = Null THEN Thrown(<<"No time series data found">>)
  ELSE LET ha == calculateHeikinAshi(r.series[1])
       IN IF ha.threw THEN Thrown(<<"calculateHeikinAshi threw">>)
          ELSE [throws |-> Null, next |-> "none", data |-> Some(ha.bars)]

\* src/unnamed/part_000 155-220; first: the response is the one of the adjusted
\* endpoint (the first request), not of the fallback
fetchHistoricalDataHA(r, first) ==
  IF r.kind = "rejected" THEN Thrown(RejectionMessage)
  ELSE IF r.kind = "http" THEN Thrown(HttpMessage)
  ELSE IF r.err # "absent" THEN Thrown(ApiMessage(r.err))
  ELSE IF r.series = Null THEN
    IF first THEN [throws |-> Null, next |-> "TIME_SERIES_DAILY", data |-> Null]
    ELSE Thrown(<<"No time series data found">>)
  ELSE LET ha == calculateHeikinAshi(r.series[1])
       IN IF ha.threw THEN Thrown(<<"calculateHeikinAshi threw">>)
          ELSE [throws |-> Null, next |-> "none", data |-> Some(ha.bars)]

\* an absent calls or puts list becomes the empty list
orEmpty(list) == IF list = Null THEN <<>> ELSE list[1]

\* src/unnamed/part_002 91-104
fetchOptions(r) ==
  IF r.kind = "rejected" THEN [throws |-> Some(RejectionMessage), next |-> "none", data |-> Null]
  ELSE IF r.kind = "http" THEN [throws |-> Some(HttpMessage), next |-> "none", data |-> Null]
  ELSE [throws |-> Null, next |-> "none",
        data |-> Some([calls |-> orEmpty(r.chain[1].calls), puts |-> orEmpty(r.chain[1].puts)])]

(***************************************************************************)
(* server.js: the proxy route GET /quote/:ticker.                          *)
(***************************************************************************)
\* Requests the proxy receives in a behaviour.
MaxReq == 2

ReqIds == 1..MaxReq

Tickers == {"IBM", "MSFT", "ZZZZ"}

\* what axios.get gives: it rejects (network failure, or a status outside 2xx),
\* or it resolves with a body whose 'Global Quote' is absent, an object without
\* keys, or an object with the quote's fields
UpstreamOutcomes ==
  {[kind |-> "failed", quote |-> "absent"]}
    \cup {[kind |-> "json", quote |-> q] : q \in QuoteFields}

NoUpstream == [kind |-> "none", quote |-> "absent"]

\* a response of the proxy: its status and its body, which is either {error} or
\* the 'Global Quote' object of the upstream (quote: Null, or which ticker's
\* quote and whether it has fields)
Reply(status, err, quote) == [status |-> status, error |-> err, quote |-> quote]

\* the handler from the upstream's answer on: response.data['Global Quote'] is
\* tested for truthiness, and an object without keys is truthy
quoteRoute(ticker, u) ==
  IF u.kind = "failed" THEN Reply(500, "Internal server error", Null)
  ELSE IF u.quote # "absent" THEN Reply(200, "", Some([ticker |-> ticker, fields |-> u.quote]))
  ELSE Reply(404, "Ticker not found", Null)

IdleRequest == [pc |-> "idle", ticker |-> "", upstream |-> NoUpstream, sent |-> <<>>]

(***************************************************************************)
(* The options table.  The rows are the stored calls followed by the       *)
(* stored puts (src/unnamed/part_002 197).  The filter and the sort of the *)
(* rows (project) are not in the sources at hand; they follow section 4.2  *)
(* of the specification.  A field of a contract is Null when the contract  *)
(* has no such field, Some(text) otherwise.                                *)
(***************************************************************************)
OptionContract(name, type, strike, expiration) ==
  [contractName |-> name, contractType |-> type, strikePrice |-> strike,
   expiration |-> expiration]

June == <<"2", "0", "2", "4", "-", "0", "6", "-", "2", "1">>

July == <<"2", "0", "2", "4", "-", "0", "7", "-", "1", "9">>

SampleExpirations == {June, July}

C100 == OptionContract("C100", "CALL", Some(<<"1", "0", "0">>), Some(June))

C110 == OptionContract("C110", "CALL", Some(<<"1", "1", "0">>), Some(July))

C9 == OptionContract("C9", "CALL", Some(<<"9">>), Some(July))

P90 == OptionContract("P90", "PUT", Some(<<"9", "0">>), Some(June))

P95 == OptionContract("P95", "PUT", Null, Some(July))

\* the calls and puts of the options responses the table is shown for
ViewChains ==
  { [calls |-> Null, puts |-> Null],
    [calls |-> Some(<<C9>>), puts |-> Null],
    [calls |-> Some(<<C100, C110>>), puts |-> Some(<<P90, P95>>)],
    [calls |-> Some(<<C110, C9, C100>>), puts |-> Some(<<P90>>)] }

ViewResponses == { Response("json", "absent", "absent", Null, Some(c)) : c \in ViewChains }

\* [...optionsData.calls, ...optionsData.puts]
Rows(data) == IF data = Null THEN <<>> ELSE data[1].chain.calls \o data[1].chain.puts

TypeFilters == {"ALL", "CALLS", "PUTS"}

\* the sort keys offered: two fields of the contracts, and one they do not have
SortKeys == {"strikePrice", "expiration", "volume"}

Directions == {"ascending", "descending"}

FilterSpecs == [typeFilter : TypeFilters, expiration : {Null} \cup {Some(e) : e \in SampleExpirations}]

SortSpecs == [key : SortKeys, direction : Directions]

\* the value of a contract for a sort key, Null when it has none
ValueOf(c, key) ==
  CASE key = "strikePrice" -> c.strikePrice
    [] key = "expiration" -> c.expiration
    [] OTHER -> Null

\* code units of the characters of the sample strings, as far as their order goes
CharRank(c) == IF c = "-" THEN 0 ELSE 1 + DigitValue(c)

RECURSIVE LexLess(_, _)
\* s comes before t as a plain string
LexLess(s, t) ==
  IF t = <<>> THEN FALSE
  ELSE IF s = <<>> THEN TRUE
  ELSE IF Head(s) # Head(t) THEN CharRank(Head(s)) < CharRank(Head(t))
  ELSE LexLess(Tail(s), Tail(t))

MatchesAnyType(c, typeFilter) == TRUE

\* step 1: the type filter
matchesType(c, typeFilter) ==
  \/ typeFilter = "ALL"
  \/ (typeFilter = "CALLS" /\ c.contractType = "CALL")
  \/ (typeFilter = "PUTS" /\ c.contractType = "PUT")

\* step 2: the expiration filter, exact equality when set
matchesExpiration(c, expiration) ==
  expiration = Null \/ c.expiration = expiration

ValueLessAsStrings(x, y) == LexLess(x, y)

\* step 3, values present: x sorts before y in ascending order, numerically when
\* both are numeric strings, as plain strings otherwise
valueLess(x, y) ==
  IF IsNumeric(x) /\ IsNumeric(y) THEN parseFloat(x).v < parseFloat(y).v
  ELSE LexLess(x, y)

\* step 3: a sorts strictly before b; a contract without a value for the key
\* sorts after every contract that has one, in either direction
sortsBefore(a, b, sort) ==
  LET x == ValueOf(a, sort.key)
      y == ValueOf(b, sort.key)
  IN IF x = Null THEN FALSE
     ELSE IF y = Null THEN TRUE
     ELSE IF sort.direction = "ascending" THEN valueLess(x[1], y[1])
     ELSE valueLess(y[1], x[1])

SortContractsRepeatingValueless(cs, sort) ==
  cs \o SelectSeq(cs, LAMBDA c : ValueOf(c, sort.key) = Null)

\* steps 3 and 4: the stable sort; the place of element i is one more than the
\* number of elements that sort before it, or tie with it and stand before it
sortContracts(cs, sort) ==
  LET place(i) == 1 + Cardinality({j \in 1..Len(cs) :
                      \/ sortsBefore(cs[j], cs[i], sort)
                      \/ (~sortsBefore(cs[i], cs[j], sort) /\ j < i)})
  IN [k \in 1..Len(cs) |-> cs[CHOOSE i \in 1..Len(cs) : place(i) = k]]

\* project(contracts, filter, sort)
project(contracts, filter, sort) ==
  sortContracts(
    SelectSeq(SelectSeq(contracts, LAMBDA c : matchesType(c, filter.typeFilter)),
              LAMBDA c : matchesExpiration(c, filter.expiration)),
    sort)

(***************************************************************************)
(* State.                                                                  *)
(***************************************************************************)
VARIABLES
  haInput,     \* the timeSeries argument of a call of calculateHeikinAshi
  haOutput,    \* what the call gave: [threw, bars]
  haPc,        \* "ready" before the call, "done" after it
  variant,     \* which StockQuote component this is
  symbol,      \* useState: the text of the input
  stockData,   \* useState: Null, or the quote shown and the sequence that set it
  error,       \* useState: Null, or the message shown
  loading,     \* useState
  chartData,   \* useState: historicalData / heikinAshiData and the sequence that set it
  optionsData, \* useState: Null, or the chain shown and the sequence that set it
  seqs,        \* the fetch sequences: where each is (idle, awaitQuote, awaitData,
               \* awaitFallback, done) and the symbol its requests carry
  last,        \* the handler of a fetch sequence that ran last: which, for which
               \* sequence, the response it received, the request it issued, the
               \* error it set
  requests,    \* server.js: the GET /quote/:ticker requests, where each is (idle,
               \* awaitUpstream, done), its ticker, what the upstream answered and
               \* the responses sent for it
  filterSpec,  \* the options table: the type filter and the expiration filter
  sortSpec,    \* the options table: the sort key and direction
  view,        \* the options table: the rows as rendered
  chart        \* the series the chart widget holds, each with the data set on it

haVars == <<haInput, haOutput, haPc>>

uiVars == <<variant, symbol, stockData, error, loading, chartData, optionsData, seqs, last, chart>>

srvVars == <<requests>>

viewVars == <<filterSpec, sortSpec, view>>

vars == <<haInput, haOutput, haPc, variant, symbol, stockData, error, loading,
          chartData, optionsData, seqs, last, requests, filterSpec, sortSpec, view, chart>>

SeqIds == 1..MaxSeq

IdleSeq == [pc |-> "idle", symbol |-> <<>>]

Event(h, i, r, req, raised) ==
  [handler |-> h, seq |-> i, resp |-> r, issued |-> req, raised |-> raised]

InitUI ==
  /\ symbol = <<>>
  /\ stockData = Null
  /\ error = Null
  /\ loading = FALSE
  /\ chartData = [by |-> 0, points |-> <<>>]
  /\ optionsData = Null
  /\ seqs = [i \in SeqIds |-> IdleSeq]
  /\ chart = <<>>
  /\ last = Event("none", 0, NoResponse, "none", Null)

InFlight(i) == seqs[i].pc \notin {"idle", "done"}

InitServer == requests = [id \in ReqIds |-> IdleRequest]

\* no table yet: everything shown, in the order received
InitTable ==
  /\ filterSpec = [typeFilter |-> "ALL", expiration |-> Null]
  /\ sortSpec = [key |-> "volume", direction |-> "ascending"]
  /\ view = <<>>

(***************************************************************************)
(* The transform on its own: any input series, one call.                   *)
(***************************************************************************)
InitHA ==
  /\ haInput \in TimeSeriesInputs
  /\ haOutput = [threw |-> FALSE, bars |-> <<>>]
  /\ haPc = "ready"
  /\ variant = "ha"
  /\ InitUI
  /\ InitServer
  /\ InitTable

Calculate ==
  /\ haPc = "ready"
  /\ haOutput' = calculateHeikinAshi(haInput)
  /\ haPc' = "done"
  /\ UNCHANGED haInput
  /\ UNCHANGED uiVars
  /\ UNCHANGED srvVars
  /\ UNCHANGED viewVars

NextHA == Calculate

SpecHA == InitHA /\ [][NextHA]_vars

(***************************************************************************)
(* The component: typing, submitting, and the responses coming back.       *)
(***************************************************************************)
InitFetch ==
  /\ haInput = <<>>
  /\ haOutput = [threw |-> FALSE, bars |-> <<>>]
  /\ haPc = "ready"
  /\ variant \in Variants
  /\ InitUI
  /\ InitServer
  /\ InitTable

\* onChange of the input: setSymbol(e.target.value.toUpperCase())
Type(text) ==
  /\ symbol' = toUpperCase(text)
  /\ symbol' # symbol
  /\ UNCHANGED <<haVars, srvVars, viewVars, variant, stockData, error, loading, chartData, optionsData, seqs, last, chart>>

ResetsNoStockData(v) == FALSE

\* the reset before fetching includes setStockData(null), except in the basic
\* variant
resetsStockData(v) == v # "basic"

\* fetchStockData / fetchData up to its first await, called by `trigger`
fetchStockData(trigger) ==
  IF ~validSymbol(variant, symbol)
  THEN /\ error' = Some(<<"Please enter a stock symbol">>)
       /\ last' = Event(trigger, 0, NoResponse, "none", error')
       /\ UNCHANGED <<haVars, srvVars, viewVars, variant, symbol, stockData, loading, chartData, optionsData, seqs, chart>>
  ELSE /\ \E i \in SeqIds : seqs[i].pc = "idle"
       /\ LET i == CHOOSE j \in SeqIds : seqs[j].pc = "idle" /\ \A k \in 1..j - 1 : seqs[k].pc # "idle"
          IN /\ loading' = TRUE
             /\ error' = Null
             /\ stockData' = IF resetsStockData(variant) THEN Null ELSE stockData
             /\ optionsData' = IF variant = "options" THEN Null ELSE optionsData
             /\ seqs' = [seqs EXCEPT ![i] = [pc |-> "awaitQuote", symbol |-> symbol]]
             /\ last' = Event(trigger, i, NoResponse, "GLOBAL_QUOTE", Null)
       /\ UNCHANGED <<haVars, srvVars, viewVars, variant, symbol, chartData, chart>>

\* onClick of the button, which is disabled while loading
Click ==
  /\ ~loading
  /\ fetchStockData("click")

\* handleKeyPress with event.key === "Enter"
PressEnter == fetchStockData("enter")

LoadingLeftAsIs(next, isLoading) == isLoading

\* finally { setLoading(false) }, run when the sequence is over (no request follows)
finallyLoading(next, isLoading) == IF next = "none" THEN FALSE ELSE isLoading

\* the quote request of sequence i is answered by r
QuoteResponse(i, r) ==
  /\ seqs[i].pc = "awaitQuote"
  /\ LET fail == quoteFailure(variant, r)
         req == IF fail = Null THEN requestAfterQuote(variant) ELSE "none"
     IN /\ error' = IF fail = Null THEN error ELSE fail
        /\ stockData' = IF fail = Null THEN Some([symbol |-> seqs[i].symbol, by |-> i])
                        ELSE stockData
        /\ loading' = finallyLoading(req, loading)
        /\ seqs' = [seqs EXCEPT ![i].pc = IF req = "none" THEN "done" ELSE "awaitData"]
        /\ last' = Event("quote", i, r, req, fail)
  /\ UNCHANGED <<haVars, srvVars, viewVars, variant, symbol, chartData, optionsData, chart>>

\* the useEffect on historicalData / heikinAshiData, run when data is set: with
\* no point it does nothing; in the area variant it adds an area series to the
\* chart and sets the data on it; in the Heikin-Ashi variant it adds the
\* candlestick series once (kept in heikinAshiSeriesRef) and sets the data on it
chartEffect(v, series, data) ==
  IF data.points = <<>> THEN series
  ELSE IF v = "area" \/ series = <<>> THEN Append(series, data)
  ELSE [series EXCEPT ![1] = data]

\* what the second part of the sequence makes of the response r
dataOutcome(v, r, first) ==
  CASE v = "area" -> fetchHistoricalDataArea(r)
    [] v = "ha" -> fetchHistoricalDataHA(r, first)
    [] OTHER -> fetchOptions(r)

\* the historical (or options) request of sequence i is answered by r
DataResponse(i, r) ==
  /\ seqs[i].pc \in {"awaitData", "awaitFallback"}
  /\ LET out == dataOutcome(variant, r, seqs[i].pc = "awaitData")
     IN /\ error' = IF out.throws = Null THEN error ELSE out.throws
        /\ chartData' = IF out.data # Null /\ variant # "options"
                        THEN [by |-> i, points |-> out.data[1]] ELSE chartData
        /\ chart' = IF out.data # Null /\ variant # "options"
                    THEN chartEffect(variant, chart, [by |-> i, points |-> out.data[1]])
                    ELSE chart
        /\ optionsData' = IF out.data # Null /\ variant = "options"
                          THEN Some([by |-> i, chain |-> out.data[1]]) ELSE optionsData
        /\ loading' = finallyLoading(out.next, loading)
        /\ seqs' = [seqs EXCEPT ![i].pc = IF out.next = "none" THEN "done" ELSE "awaitFallback"]
        /\ last' = Event(IF seqs[i].pc = "awaitData" THEN "data" ELSE "fallback",
                         i, r, out.next, out.throws)
  /\ UNCHANGED <<haVars, srvVars, viewVars, variant, symbol, stockData>>

HistoricalResponse(i, r) ==
  /\ variant \in {"area", "ha"}
  /\ DataResponse(i, r)

OptionsResponse(i, r) ==
  /\ variant = "options"
  /\ DataResponse(i, r)

NextFetch ==
  \/ \E text \in TypedTexts : Type(text)
  \/ Click
  \/ PressEnter
  \/ \E i \in SeqIds, r \in QuoteResponses : QuoteResponse(i, r)
  \/ \E i \in SeqIds, r \in HistoricalResponses : HistoricalResponse(i, r)
  \/ \E i \in SeqIds, r \in OptionsResponses : OptionsResponse(i, r)

SpecFetch == InitFetch /\ [][NextFetch]_vars

\* every network call settles: the response of a sequence that awaits one comes
ResponsesCome ==
  \A i \in SeqIds :
    /\ WF_vars(\E r \in QuoteResponses : QuoteResponse(i, r))
    /\ WF_vars(\E r \in HistoricalResponses : HistoricalResponse(i, r))
    /\ WF_vars(\E r \in OptionsResponses : OptionsResponse(i, r))

SpecFetchLive == SpecFetch /\ ResponsesCome

(***************************************************************************)
(* The proxy: requests come in, the upstream answers each.                 *)
(***************************************************************************)
InitProxy ==
  /\ haInput = <<>>
  /\ haOutput = [threw |-> FALSE, bars |-> <<>>]
  /\ haPc = "ready"
  /\ variant = "basic"
  /\ InitUI
  /\ InitServer
  /\ InitTable

\* app.get('/quote/:ticker') up to its await: the upstream is asked
Get(id, ticker) ==
  /\ requests[id].pc = "idle"
  /\ requests' = [requests EXCEPT ![id] = [IdleRequest EXCEPT !.pc = "awaitUpstream",
                                                             !.ticker = ticker]]
  /\ UNCHANGED <<haVars, uiVars, viewVars>>

\* the rest of the handler, once axios.get has settled with u
UpstreamAnswer(id, u) ==
  /\ requests[id].pc = "awaitUpstream"
  /\ requests' = [requests EXCEPT ![id].pc = "done",
                                  ![id].upstream = u,
                                  ![id].sent = Append(@, quoteRoute(requests[id].ticker, u))]
  /\ UNCHANGED <<haVars, uiVars, viewVars>>

NextProxy ==
  \/ \E id \in ReqIds, ticker \in Tickers : Get(id, ticker)
  \/ \E id \in ReqIds, u \in UpstreamOutcomes : UpstreamAnswer(id, u)

SpecProxy == InitProxy /\ [][NextProxy]_vars

(***************************************************************************)
(* The options table: the options data is reset and stored by the fetches, *)
(* the filter and the sort are set by the user, and the rows are rendered  *)
(* again after each.                                                       *)
(***************************************************************************)
InitView ==
  /\ haInput = <<>>
  /\ haOutput = [threw |-> FALSE, bars |-> <<>>]
  /\ haPc = "ready"
  /\ variant = "options"
  /\ InitUI
  /\ InitServer
  /\ InitTable

\* the render that follows a state update
Render == view' = project(Rows(optionsData'), filterSpec', sortSpec')

tableFixed == <<haVars, srvVars, variant, symbol, stockData, error, loading, chartData, seqs, last, chart>>

\* fetchData: setOptionsData(null)
ResetOptions ==
  /\ optionsData # Null
  /\ optionsData' = Null
  /\ UNCHANGED <<filterSpec, sortSpec>>
  /\ Render
  /\ UNCHANGED tableFixed

\* fetchData: setOptionsData({calls: ... || [], puts: ... || []}) for response r
\* of sequence i
StoreOptions(i, r) ==
  /\ optionsData' = Some([by |-> i, chain |-> fetchOptions(r).data[1]])
  /\ UNCHANGED <<filterSpec, sortSpec>>
  /\ Render
  /\ UNCHANGED tableFixed

SetFilter(f) ==
  /\ optionsData # Null
  /\ filterSpec' = f
  /\ UNCHANGED <<optionsData, sortSpec>>
  /\ Render
  /\ UNCHANGED tableFixed

SetSort(sort) ==
  /\ optionsData # Null
  /\ sortSpec' = sort
  /\ UNCHANGED <<optionsData, filterSpec>>
  /\ Render
  /\ UNCHANGED tableFixed

NextView ==
  \/ ResetOptions
  \/ \E i \in SeqIds, r \in ViewResponses : StoreOptions(i, r)
  \/ \E f \in FilterSpecs : SetFilter(f)
  \/ \E sort \in SortSpecs : SetSort(sort)

SpecView == InitView /\ [][NextView]_vars

(***************************************************************************)
(* Properties of calculateHeikinAshi, checked under SpecHA.                *)
(***************************************************************************)
\* the entry of timeSeries dated `time`
SourceOf(timeSeries, time) ==
  CHOOSE e \in {timeSeries[i] : i \in 1..Len(timeSeries)} : e.date = time

\* C1: the returned sequence has one bar per input entry: its length is the
\* input's and its dates are exactly the input's dates.
C1_OneBarPerEntry ==
  haPc = "done" =>
    /\ ~haOutput.threw
    /\ Len(haOutput.bars) = Len(haInput)
    /\ {haOutput.bars[i].time : i \in 1..Len(haOutput.bars)}
         = {haInput[i].date : i \in 1..Len(haInput)}

C1_Witness ==
  /\ haPc = "done"
  /\ Len(haInput) = 3
  /\ Len(haOutput.bars) = 3

\* C2: in the returned sequence every bar but the first has haOpen equal to the
\* average of haOpen and haClose of the bar just before it in that sequence
\* (stated here for the feeds the API gives: numeric fields, newest day first).
C2_HaOpenAveragesPrecedingOutputBar ==
  (haPc = "done" /\ AllNumeric(haInput) /\ NewestFirst(haInput)) =>
    \A i \in 2..Len(haOutput.bars) :
      haOutput.bars[i].open
        = Div(Add(haOutput.bars[i - 1].open, haOutput.bars[i - 1].close), 2)

\* C3: whatever the iteration order of the input, the returned sequence is in
\* chronological order: adjacent bars a, b have a.time < b.time.
C3_OutputChronological ==
  haPc = "done" =>
    \A i \in 1..Len(haOutput.bars) - 1 :
      haOutput.bars[i].time < haOutput.bars[i + 1].time

\* the end-to-end example of the specification, newest first
C4_Input ==
  << [date |-> 3, values |-> RawBar(<<"1", "0">>, <<"1", "2">>, <<"9">>, <<"1", "1">>)],
     [date |-> 2, values |-> RawBar(<<"8">>, <<"9">>, <<"7">>, <<"8">>)],
     [date |-> 1, values |-> RawBar(<<"5">>, <<"6">>, <<"4">>, <<"5">>)] >>

\* C4: for the example input the first returned bar is the one of day 1 and has
\* haOpen = 5, haClose = 5, haHigh = 6, haLow = 4.
C4_ExampleFirstBar ==
  (haPc = "done" /\ haInput = C4_Input) =>
    /\ Len(haOutput.bars) = 3
    /\ haOutput.bars[1] = [time |-> 1, open |-> Num(5 * Scale), high |-> Num(6 * Scale),
                           low |-> Num(4 * Scale), close |-> Num(5 * Scale)]

\* C5: for a series of numeric fields, every returned bar has haHigh equal to the
\* maximum of its source high, haOpen and haClose, and haLow equal to the minimum
\* of its source low, haOpen and haClose; so haLow <= haOpen, haClose <= haHigh.
C5_HighLowExact ==
  (haPc = "done" /\ AllNumeric(haInput)) =>
    \A i \in 1..Len(haOutput.bars) :
      LET bar == haOutput.bars[i]
          src == SourceOf(haInput, bar.time).values
      IN /\ IsNum(bar.open) /\ IsNum(bar.close) /\ IsNum(bar.high) /\ IsNum(bar.low)
         /\ bar.high = MathMax(parseFloat(src.high), bar.open, bar.close)
         /\ bar.low = MathMin(parseFloat(src.low), bar.open, bar.close)
         /\ bar.low.v <= bar.open.v /\ bar.open.v <= bar.high.v
         /\ bar.low.v <= bar.close.v /\ bar.close.v <= bar.high.v

\* a bar whose haHigh is its haOpen, above the source high and above its haClose
C5_Witness ==
  /\ haPc = "done"
  /\ AllNumeric(haInput)
  /\ \E i \in 1..Len(haOutput.bars) :
       LET bar == haOutput.bars[i]
       IN /\ bar.high = bar.open
          /\ bar.high.v > parseFloat(SourceOf(haInput, bar.time).values.high).v
          /\ bar.high.v > bar.close.v

\* C6: the bar of the first entry processed has haOpen equal to that entry's
\* open and haClose equal to that entry's close, as parsed: nothing is averaged.
C6_SeedIsRaw ==
  (haPc = "done" /\ Len(haInput) > 0) =>
    \E i \in 1..Len(haOutput.bars) :
      /\ haOutput.bars[i].time = haInput[1].date
      /\ haOutput.bars[i].open = parseFloat(haInput[1].values.open)
      /\ haOutput.bars[i].close = parseFloat(haInput[1].values.close)

\* a seed whose close differs from the average of its four prices
C6_Witness ==
  /\ haPc = "done"
  /\ Len(haInput) >= 2
  /\ AllNumeric(haInput)
  /\ LET v == haInput[1].values
     IN haOutput.bars[Len(haOutput.bars)].close
          # Div(Add(Add(Add(parseFloat(v.open), parseFloat(v.high)), parseFloat(v.low)),
                    parseFloat(v.close)), 4)

\* C7: when a field of the input is not numeric the call fails (raises), it does
\* not return bars.
C7_NonNumericFieldRaises ==
  (haPc = "done" /\ ~AllNumeric(haInput)) => haOutput.threw

\* the average of the four prices of a source entry, as parsed
FourPriceAverage(v) ==
  Div(Add(Add(Add(parseFloat(v.open), parseFloat(v.high)), parseFloat(v.low)),
          parseFloat(v.close)), 4)

\* C19: in processing order (the order of the input; the output is that order
\* reversed) the bar of every entry after the first has haOpen equal to half the
\* sum of haOpen and haClose of the bar of the entry processed just before it,
\* and haClose equal to the average of the four prices of its own entry (NaN
\* where a price does not parse).
C19_RecurrenceInProcessingOrder ==
  haPc = "done" =>
    \A i \in 2..Len(haInput) :
      LET n == Len(haInput)
          bar == haOutput.bars[n + 1 - i]
          previous == haOutput.bars[n + 2 - i]
      IN /\ bar.time = haInput[i].date
         /\ previous.time = haInput[i - 1].date
         /\ bar.open = Div(Add(previous.open, previous.close), 2)
         /\ bar.close = FourPriceAverage(haInput[i].values)

\* three numeric entries: the bar of the third differs from its raw open and
\* from the average of the second entry's raw open and close
C19_Witness ==
  /\ haPc = "done"
  /\ Len(haInput) = 3
  /\ AllNumeric(haInput)
  /\ haOutput.bars[1].open # parseFloat(haInput[3].values.open)
  /\ haOutput.bars[1].open
       # Div(Add(parseFloat(haInput[2].values.open), parseFloat(haInput[2].values.close)), 2)
  /\ haOutput.bars[2].close # parseFloat(haInput[2].values.close)

RECURSIVE AccumulatedBar(_, _)
\* haOpen and haClose of the k-th entry of a series by the recurrence started at
\* its first entry
AccumulatedBar(series, k) ==
  IF k = 1
  THEN [open |-> parseFloat(series[1].values.open),
        close |-> parseFloat(series[1].values.close)]
  ELSE LET before == AccumulatedBar(series, k - 1)
       IN [open |-> Div(Add(before.open, before.close), 2),
           close |-> FourPriceAverage(series[k].values)]

\* C20: for a series given newest day first, of two entries or more, the last
\* bar returned is the one of the most recent day and is unsmoothed (its haOpen
\* and haClose are that day's open and close), and the first bar returned is the
\* one of the oldest day, whose haOpen and haClose come from the recurrence run
\* from the most recent day over every day between.
C20_SeedIsMostRecentDay ==
  (haPc = "done" /\ NewestFirst(haInput) /\ Len(haInput) >= 2) =>
    LET n == Len(haInput)
        seed == haOutput.bars[n]
        oldest == haOutput.bars[1]
    IN /\ \A i \in 1..n : haInput[i].date <= seed.time /\ oldest.time <= haInput[i].date
       /\ seed.time = haInput[1].date
       /\ seed.open = parseFloat(haInput[1].values.open)
       /\ seed.close = parseFloat(haInput[1].values.close)
       /\ oldest.time = haInput[n].date
       /\ oldest.open = AccumulatedBar(haInput, n).open
       /\ oldest.close = AccumulatedBar(haInput, n).close

\* three numeric days, newest first: the last bar's close is not the average of
\* its day's prices, and the first bar's open is not its day's open
C20_Witness ==
  /\ haPc = "done"
  /\ NewestFirst(haInput)
  /\ Len(haInput) = 3
  /\ AllNumeric(haInput)
  /\ haOutput.bars[3].close # FourPriceAverage(haInput[1].values)
  /\ haOutput.bars[1].open # parseFloat(haInput[3].values.open)

(***************************************************************************)
(* Properties of the fetch sequences, checked under SpecFetch.             *)
(***************************************************************************)
\* the response of the handler that ran last carried a time series without entries
EmptySeriesReceived ==
  /\ variant = "ha"
  /\ last.handler \in {"data", "fallback"}
  /\ last.resp.kind = "json"
  /\ last.resp.err = "absent"
  /\ last.resp.series = Some(<<>>)

\* C8: for a series without entries calculateHeikinAshi returns the empty
\* sequence and raises nothing, and the fetch sequence around it finishes (the
\* handler ends the sequence and clears loading) with no error set by it: the
\* empty series is stored as the chart's data.
C8_EmptySeriesIsNoData ==
  EmptySeriesReceived =>
    /\ calculateHeikinAshi(<<>>) = [threw |-> FALSE, bars |-> <<>>]
    /\ last.raised = Null
    /\ last.issued = "none"
    /\ seqs[last.seq].pc = "done"
    /\ chartData = [by |-> last.seq, points |-> <<>>]
    /\ ~loading

C8_Witness ==
  /\ EmptySeriesReceived
  /\ last.handler = "fallback"
  /\ seqs[last.seq].pc = "done"

\* the quote request succeeded, as the claim puts it: HTTP ok, no 'Error Message'
\* field, a 'Global Quote' with data
QuoteSucceeded(r) == r.kind = "json" /\ r.err = "absent" /\ r.quote = "data"

\* the same, with the 'Error Message' test each variant makes: the options
\* variant stops on a non-empty 'Error Message' only
QuoteAccepted(v, r) ==
  /\ r.kind = "json"
  /\ IF v = "options" THEN r.err # "text" ELSE r.err = "absent"
  /\ r.quote = "data"

FollowUpRequests == {"TIME_SERIES_DAILY_ADJUSTED", "OPTIONS_CHAIN"}

\* C9 as claimed: the historical (options) request of a sequence is issued only
\* by the handler of its quote response, and only when that response is HTTP ok,
\* has no 'Error Message' field and has a non-empty 'Global Quote'; after any
\* other quote response the sequence is over and has issued nothing.
C9_FollowUpOnlyAfterQuoteSucceeded ==
  variant \in {"area", "ha", "options"} =>
    /\ last.issued \in FollowUpRequests =>
         last.handler = "quote" /\ QuoteSucceeded(last.resp)
    /\ (last.handler = "quote" /\ ~QuoteSucceeded(last.resp)) =>
         last.issued = "none" /\ seqs[last.seq].pc = "done"
    /\ \A i \in SeqIds : seqs[i].pc = "awaitData" =>
         (last.seq # i \/ (last.handler = "quote" /\ QuoteSucceeded(last.resp)))

\* C9 (amended): the same with the quote accepted as the variant tests it: in the
\* chart variants no 'Error Message' field, in the options variant no non-empty
\* 'Error Message' (a present but empty one does not stop the sequence).
C9_FollowUpOnlyAfterQuoteAccepted ==
  variant \in {"area", "ha", "options"} =>
    /\ last.issued \in FollowUpRequests =>
         last.handler = "quote" /\ QuoteAccepted(variant, last.resp)
    /\ (last.handler = "quote" /\ ~QuoteAccepted(variant, last.resp)) =>
         last.issued = "none" /\ seqs[last.seq].pc = "done"
    /\ \A i \in SeqIds : seqs[i].pc = "awaitData" =>
         (last.seq # i \/ (last.handler = "quote" /\ QuoteAccepted(variant, last.resp)))

C9_Witness ==
  /\ variant = "options"
  /\ last.handler = "quote"
  /\ last.resp.err = "empty"
  /\ last.issued = "OPTIONS_CHAIN"
  /\ seqs[last.seq].pc = "awaitData"

\* C10: in the area-chart component at most one fetch sequence is in flight at
\* any time, and loading is true while one is.
C10_OneSequenceAtATime ==
  variant = "area" =>
    /\ Cardinality({i \in SeqIds : InFlight(i)}) <= 1
    /\ (\E i \in SeqIds : InFlight(i)) => loading

\* C11: the quote shown is the one of the sequence whose quote response was
\* handled last, not of the sequence started last: in the quote-only component
\* an accepted quote response writes stockData with its own sequence's symbol
\* whatever other sequences have been started since. (With two sequences
\* started before either resolves, the earlier one's quote is what stays shown
\* when its response comes second: C11_Witness.)
C11_LastResponseWins ==
  (/\ variant = "quote"
   /\ last.handler = "quote"
   /\ last.resp.kind = "json"
   /\ last.resp.err # "text"
   /\ last.resp.quote = "data") =>
    /\ stockData = Some([symbol |-> seqs[last.seq].symbol, by |-> last.seq])
    /\ seqs[last.seq].pc = "done"

\* both sequences have finished and the quote shown is the one of the sequence
\* started first, for another symbol than the one started last
C11_Witness ==
  /\ variant = "quote"
  /\ seqs[1].pc = "done"
  /\ seqs[2].pc = "done"
  /\ seqs[1].symbol # seqs[2].symbol
  /\ last.handler = "quote"
  /\ last.seq = 1
  /\ stockData = Some([symbol |-> seqs[1].symbol, by |-> 1])
  /\ ~loading

\* the response has a body and the body has no 'Time Series (Daily)' key
LacksSeriesKey(r) == r.kind = "json" /\ r.series = Null

\* the response gets as far as the test of the key and fails it: HTTP ok, no
\* 'Error Message' field, no 'Time Series (Daily)' key
ReachesMissingKey(r) == r.kind = "json" /\ r.err = "absent" /\ r.series = Null

\* the error of a sequence that found no time series
NoSeriesMessage == Some(<<HistoricalPrefix, "No time series data found">>)

\* C12 as claimed: in the Heikin-Ashi variant the handler of the adjusted-daily
\* response issues TIME_SERIES_DAILY, for the same symbol, exactly when that
\* response has no 'Time Series (Daily)' key; nothing else issues it; a sequence
\* fails with 'No time series data found' only on a fallback response without
\* the key, and a fallback is awaited only after an adjusted response without it.
C12_FallbackIffKeyMissing ==
  /\ [](/\ last.issued = "TIME_SERIES_DAILY" => (variant = "ha" /\ last.handler = "data")
        /\ (variant = "ha" /\ last.handler = "data") =>
             /\ LacksSeriesKey(last.resp) <=> last.issued = "TIME_SERIES_DAILY"
             /\ last.issued = "TIME_SERIES_DAILY" =>
                  (seqs[last.seq].pc = "awaitFallback" /\ last.raised = Null)
        /\ (variant = "ha" /\ last.raised = NoSeriesMessage) =>
             (last.handler = "fallback" /\ LacksSeriesKey(last.resp)))
  /\ [][\A i \in SeqIds :
          (seqs'[i].pc = "awaitFallback" /\ seqs[i].pc # "awaitFallback") =>
            /\ seqs[i].pc = "awaitData"
            /\ seqs'[i].symbol = seqs[i].symbol
            /\ last'.seq = i
            /\ last'.handler = "data"
            /\ LacksSeriesKey(last'.resp)]_vars

\* C12 (amended): the same, where the adjusted-daily response that leads to the
\* fallback is one that is HTTP ok, has no 'Error Message' field and has no
\* 'Time Series (Daily)' key: a response with an 'Error Message' ends the
\* sequence with that message whether or not it has the key.
C12_FallbackIffMissingKeyReached ==
  /\ [](/\ last.issued = "TIME_SERIES_DAILY" => (variant = "ha" /\ last.handler = "data")
        /\ (variant = "ha" /\ last.handler = "data") =>
             /\ ReachesMissingKey(last.resp) <=> last.issued = "TIME_SERIES_DAILY"
             /\ last.issued = "TIME_SERIES_DAILY" =>
                  (seqs[last.seq].pc = "awaitFallback" /\ last.raised = Null)
        /\ (variant = "ha" /\ last.raised = NoSeriesMessage) =>
             (last.handler = "fallback" /\ ReachesMissingKey(last.resp)))
  /\ [][\A i \in SeqIds :
          (seqs'[i].pc = "awaitFallback" /\ seqs[i].pc # "awaitFallback") =>
            /\ seqs[i].pc = "awaitData"
            /\ seqs'[i].symbol = seqs[i].symbol
            /\ last'.seq = i
            /\ last'.handler = "data"
            /\ ReachesMissingKey(last'.resp)]_vars

\* the fallback response lacks the key too and the sequence ends with the error
C12_Witness ==
  /\ variant = "ha"
  /\ last.handler = "fallback"
  /\ ReachesMissingKey(last.resp)
  /\ last.raised = NoSeriesMessage
  /\ error = NoSeriesMessage
  /\ seqs[last.seq].pc = "done"

\* C13: the symbol every request of a fetch sequence carries (the quote request,
\* the historical or options request, the fallback request) is not empty and
\* has no lower-case letter, whatever was typed and submitted.
C13_RequestSymbolNormalized ==
  \A i \in SeqIds :
    seqs[i].pc # "idle" =>
      /\ seqs[i].symbol # <<>>
      /\ \A k \in 1..Len(seqs[i].symbol) : seqs[i].symbol[k] \notin {"a", "b"}

\* "a" was typed and submitted, "B" typed since, and the third request of the
\* sequence is out for "A"
C13_Witness ==
  /\ seqs[1].pc = "awaitFallback"
  /\ seqs[1].symbol = <<"A">>
  /\ symbol = <<"B">>
  /\ last.issued = "TIME_SERIES_DAILY"

\* C14: a submit (click or Enter) while the symbol is empty, or is only spaces in
\* a variant that trims, sets the error to 'Please enter a stock symbol', starts
\* no sequence and issues no request, and leaves loading, stockData and the
\* historical and options data as they were.
C14_EmptySubmitOnlySetsError ==
  [][(/\ \/ symbol = <<>>
         \/ (variant # "basic" /\ \A k \in 1..Len(symbol) : symbol[k] = " ")
      /\ last' # last
      /\ last'.handler \in {"click", "enter"}) =>
       /\ error' = Some(<<"Please enter a stock symbol">>)
       /\ last'.issued = "none"
       /\ last'.seq = 0
       /\ seqs' = seqs
       /\ loading' = loading
       /\ stockData' = stockData
       /\ chartData' = chartData
       /\ optionsData' = optionsData]_vars

\* Enter on a symbol of one space while a sequence awaits its options response:
\* the error is set, the quote stays shown and loading stays true
C14_Witness ==
  /\ variant = "options"
  /\ symbol = <<" ">>
  /\ last.handler = "enter"
  /\ last.seq = 0
  /\ error = Some(<<"Please enter a stock symbol">>)
  /\ loading
  /\ stockData # Null
  /\ seqs[1].pc = "awaitData"

(***************************************************************************)
(* Properties of the proxy, checked under SpecProxy.                       *)
(***************************************************************************)
\* C15: for each request the proxy sends exactly one response, once the upstream
\* has answered: 500 'Internal server error' when the upstream call failed, 200
\* with the quote mapping when the upstream has quote data for the ticker, 404
\* 'Ticker not found' when 'Global Quote' is absent or has no fields.
C15_OneResponsePerOutcome ==
  \A id \in ReqIds :
    LET req == requests[id]
    IN /\ req.pc # "done" => req.sent = <<>>
       /\ req.pc = "done" =>
            /\ Len(req.sent) = 1
            /\ req.sent[1] =
                 CASE req.upstream.kind = "failed" ->
                        Reply(500, "Internal server error", Null)
                   [] req.upstream.kind = "json" /\ req.upstream.quote = "data" ->
                        Reply(200, "", Some([ticker |-> req.ticker, fields |-> "data"]))
                   [] OTHER -> Reply(404, "Ticker not found", Null)

(***************************************************************************)
(* Properties of the options table, checked under SpecView.                *)
(***************************************************************************)
\* the contracts of a sequence of them
ContractsOf(cs) == {cs[k] : k \in 1..Len(cs)}

\* C16 as claimed: with the type filter CALLS every row shown is a CALL, with
\* PUTS every row shown is a PUT, and with ALL every stored contract is shown.
C16_TypeFilter ==
  optionsData # Null =>
    /\ filterSpec.typeFilter = "CALLS" =>
         \A k \in 1..Len(view) : view[k].contractType = "CALL"
    /\ filterSpec.typeFilter = "PUTS" =>
         \A k \in 1..Len(view) : view[k].contractType = "PUT"
    /\ filterSpec.typeFilter = "ALL" =>
         ContractsOf(Rows(optionsData)) \subseteq ContractsOf(view)

\* C16 (amended): with ALL every stored contract that passes the expiration
\* filter is shown (every stored contract when no expiration is selected).
C16_TypeFilterWithinExpiration ==
  optionsData # Null =>
    /\ filterSpec.typeFilter = "CALLS" =>
         \A k \in 1..Len(view) : view[k].contractType = "CALL"
    /\ filterSpec.typeFilter = "PUTS" =>
         \A k \in 1..Len(view) : view[k].contractType = "PUT"
    /\ filterSpec.typeFilter = "ALL" =>
         {c \in ContractsOf(Rows(optionsData)) :
            filterSpec.expiration = Null \/ c.expiration = filterSpec.expiration}
           \subseteq ContractsOf(view)

\* calls and puts are stored, CALLS is selected, and calls only are shown
C16_Witness ==
  /\ optionsData # Null
  /\ filterSpec.typeFilter = "CALLS"
  /\ \E c \in ContractsOf(Rows(optionsData)) : c.contractType = "PUT"
  /\ Len(view) = 2
  /\ \A k \in 1..Len(view) : view[k].contractType = "CALL"

\* C17: with the rows sorted by strikePrice ascending, of two adjacent rows that
\* both have a numeric strikePrice the first one's is at most the second one's,
\* as numbers; a row without a strikePrice is never followed by one with it.
C17_AscendingNumeric ==
  (optionsData # Null /\ sortSpec = [key |-> "strikePrice", direction |-> "ascending"]) =>
    \A k \in 1..Len(view) - 1 :
      LET a == view[k].strikePrice
          b == view[k + 1].strikePrice
      IN /\ (a # Null /\ b # Null /\ IsNumeric(a[1]) /\ IsNumeric(b[1])) =>
              parseFloat(a[1]).v <= parseFloat(b[1]).v
         /\ ~(a = Null /\ b # Null)

\* 90 is shown just before 100, which a comparison of the strings would not do
C17_Witness ==
  /\ sortSpec = [key |-> "strikePrice", direction |-> "ascending"]
  /\ Len(view) >= 3
  /\ \E k \in 1..Len(view) - 1 : view[k] = P90 /\ view[k + 1] = C100

\* C18: the rows shown are contracts of the options data stored last, each shown
\* once at most, and a change of filter or sort, which renders the rows again,
\* leaves the stored calls and puts as they were.
C18_ViewWithinStored ==
  /\ [](/\ ContractsOf(view) \subseteq ContractsOf(Rows(optionsData))
        /\ \A j, k \in 1..Len(view) : j # k => view[j] # view[k])
  /\ [][(filterSpec' # filterSpec \/ sortSpec' # sortSpec) => optionsData' = optionsData]_vars

\* four contracts stored, two of them shown, in another order than stored
C18_Witness ==
  /\ Len(Rows(optionsData)) = 4
  /\ Len(view) = 2
  /\ \E j, k \in 1..4 : j < k /\ Rows(optionsData)[j] = view[2] /\ Rows(optionsData)[k] = view[1]

\* C21: provided the responses come, a fetch sequence that has started comes to
\* its end, and the step that ends it, whatever the response (data, HTTP error,
\* 'Error Message', missing data, rejection), sets loading to false; when no
\* sequence is in flight loading is false.
C21_LoadingEventuallyCleared ==
  /\ \A i \in SeqIds : InFlight(i) ~> (seqs[i].pc = "done")
  /\ [][\A i \in SeqIds : (InFlight(i) /\ seqs'[i].pc = "done") => ~loading']_vars
  /\ []((\A i \in SeqIds : ~InFlight(i)) => ~loading)

\* a sequence of the Heikin-Ashi variant ended by a rejected fallback request
C21_Witness ==
  /\ variant = "ha"
  /\ last.handler = "fallback"
  /\ last.resp.kind = "rejected"
  /\ seqs[last.seq].pc = "done"
  /\ \A i \in SeqIds : ~InFlight(i)
  /\ ~loading

\* the message of the failure a historical response stands for
UnderlyingMessage(r) ==
  CASE r.kind = "rejected" -> RejectionMessage
    [] r.kind = "http" -> HttpMessage
    [] r.err # "absent" -> ApiMessage(r.err)
    [] OTHER -> <<"No time series data found">>

\* C22: in the chart variants, when the historical part of a sequence fails (its
\* quote was accepted before), the sequence is over, error is 'Failed to fetch
\* historical data: ' followed by the message of the failure, and stockData
\* still holds the quote that sequence fetched.
C22_HistoricalFailureKeepsQuote ==
  (variant \in {"area", "ha"} /\ last.handler \in {"data", "fallback"} /\ last.raised # Null) =>
    /\ seqs[last.seq].pc = "done"
    /\ error = Some(<<HistoricalPrefix>> \o UnderlyingMessage(last.resp))
    /\ stockData = Some([symbol |-> seqs[last.seq].symbol, by |-> last.seq])

\* no sequence is in flight and one at least has been through
Settled == (\A i \in SeqIds : ~InFlight(i)) /\ (\E i \in SeqIds : seqs[i].pc = "done")

\* C23 as claimed: in the quote-only variant that resets before fetching, when no
\* sequence is in flight and one at least has completed, exactly one of
\* stockData and error is non-null.
C23_ExactlyOneOfQuoteAndError ==
  (variant = "quote" /\ Settled) => ((stockData = Null) # (error = Null))

\* C23 (amended): there, one at least of stockData and error is non-null; and
\* the step that starts a sequence sets both to null, so that a quote and an
\* error shown together never come from one sequence running alone.
C23_QuoteOrError ==
  /\ []((variant = "quote" /\ Settled) => (stockData # Null \/ error # Null))
  /\ [][(variant = "quote" /\ \E i \in SeqIds : seqs[i].pc = "idle" /\ seqs'[i].pc # "idle") =>
          (stockData' = Null /\ error' = Null)]_vars

\* a quote shown with the error of the empty submit that followed it
C23_Witness ==
  /\ variant = "quote"
  /\ Settled
  /\ seqs[2].pc = "idle"
  /\ stockData # Null
  /\ error = Some(<<"Please enter a stock symbol">>)

\* the sequence started last (sequences are numbered in the order they start)
LatestStarted == CHOOSE i \in SeqIds : seqs[i].pc # "idle" /\ \A j \in SeqIds : j > i => seqs[j].pc = "idle"

\* C24: in the basic variant, a quote shown while no sequence is in flight is the
\* quote of the symbol submitted last: a fetch for a new symbol that fails or
\* finds no data does not leave the quote of the symbol before it on display.
C24_QuoteIsOfLatestSubmit ==
  (variant = "basic" /\ Settled /\ stockData # Null) =>
    stockData[1].symbol = seqs[LatestStarted].symbol

\* C25: in the chart variants, when no sequence is in flight, the data held for
\* the chart (historicalData / heikinAshiData, once set) and every series on the
\* chart are of the symbol of the quote shown: a sequence for a new symbol that
\* fails, or that gets an empty series, leaves no series of the symbol before.
C25_ChartDataOfShownQuote ==
  (variant \in {"area", "ha"} /\ Settled) =>
    /\ chartData.by # 0 =>
         (stockData # Null /\ seqs[chartData.by].symbol = stockData[1].symbol)
    /\ \A k \in 1..Len(chart) :
         (stockData # Null /\ seqs[chart[k].by].symbol = stockData[1].symbol)

\* C26: the chart holds one series at most, and that series has the data of the
\* successful fetch made last (the data set last): a new fetch replaces the
\* series of the one before.
C26_OneSeriesOfLatestData ==
  variant \in {"area", "ha"} =>
    /\ Len(chart) <= 1
    /\ \A k \in 1..Len(chart) : chart[k] = chartData

\* C27: in every state loading is true exactly when a fetch sequence is in
\* flight: when two sequences overlap, the end of one does not set loading to
\* false while the other still awaits a response.
C27_LoadingIffInFlight ==
  loading <=> (\E i \in SeqIds : InFlight(i))

=============================================================================
